---------------------------- MODULE Spec2Model ----------------------------
(***************************************************************************)
(* Model of tui-big-text (src/src/lib.rs): the BigText widget renders      *)
(* lines of styled characters as 8x8 bitmap glyphs into a buffer of        *)
(* terminal cells, packing stepX x stepY bitmap pixels into one cell.      *)
(*                                                                         *)
(* Characters and symbols are Unicode code points (integers).  A buffer is *)
(* a function from <<x, y>> to a cell [symbol, fg, bg, modifier].          *)
(***************************************************************************)
EXTENDS Integers, Sequences, FiniteSets, TLC

VARIABLES
    widget,     \* the BigText value: [lines, style, pixel_size]
    buf,        \* the destination Buffer
    prev,       \* the Buffer as it was before the render call
    area,       \* the Rect passed to render (empty before the call)
    pc,         \* where the program is: "building" / "build_failed" / "built" /
                \* "rendered" / "panicked"; "drawing"; "passes"; "layout" /
                \* "laid_out"; "symbol" / "mapped"
    builder,    \* the BigTextBuilder: each field <<>> (unset) or <<value>>
    first,      \* the Buffer before the first render call
    rects,      \* the Rects render has been called with
    calls,      \* the number of render calls made
    jobs,       \* two render passes: <<[widget, area], [widget, area]>>
    pending,    \* the cell operations each pass has still to make
    stdout,     \* the lines written to the standard output of the process
    l_area,     \* layout(): the area argument
    l_size,     \* layout(): the pixel_size argument
    l_rows,     \* layout(): the rows of cells it returned
    args,       \* get_symbol_*: the six u8 arguments
    fn,         \* get_symbol_*: which function was applied
    sym         \* get_symbol_*: the char it returned

vars ==
    <<pc, widget, buf, prev, area, builder, first, rects, calls, jobs, pending, stdout,
      l_area, l_size, l_rows, args, fn, sym>>

renderVars == <<widget, buf, prev, area>>
layoutVars == <<l_area, l_size, l_rows>>
symbolVars == <<args, fn, sym>>
buildVars == <<builder>>
seqVars == <<first, rects, calls>>
passVars == <<jobs, pending>>

-----------------------------------------------------------------------------
(* Integer helpers *)

Min(a, b) == IF a < b THEN a ELSE b

RECURSIVE Pow2(_)
Pow2(n) == IF n = 0 THEN 1 ELSE 2 * Pow2(n - 1)

U16_MAX == 65535

\* u16::div_ceil
div_ceil(a, b) == (a + b - 1) \div b

\* u16::saturating_add
saturating_add(a, b) == Min(a + b, U16_MAX)

\* (lo..hi).step_by(step), as the sequence of the values it yields
RECURSIVE step_by(_, _, _)
step_by(lo, hi, step) ==
    IF lo >= hi THEN <<>> ELSE <<lo>> \o step_by(lo + step, hi, step)

\* mutant: bit 7 taken as the leftmost pixel
BitAnd1Shl_msb_first(byte, bit) == ((byte \div Pow2(7 - bit)) % 2) * Pow2(bit)

\* glyph_byte & (1 << bit) on u8: the masked value, 0 or 2^bit
BitAnd1Shl(byte, bit) == ((byte \div Pow2(bit)) % 2) * Pow2(bit)

-----------------------------------------------------------------------------
(* PixelSize and pixels_per_cell *)

PixelSize == {"Full", "HalfHeight", "HalfWidth", "Quadrant", "ThirdHeight", "Sextant"}

PixelSizeDefault == "Full"

\* mutant: the two steps are exchanged
pixels_per_cell_transposed(size) ==
    CASE size = "Full"        -> <<1, 1>>
      [] size = "HalfHeight"  -> <<2, 1>>
      [] size = "HalfWidth"   -> <<1, 2>>
      [] size = "Quadrant"    -> <<2, 2>>
      [] size = "ThirdHeight" -> <<3, 1>>
      [] size = "Sextant"     -> <<3, 2>>

pixels_per_cell(size) ==
    CASE size = "Full"        -> <<1, 1>>
      [] size = "HalfHeight"  -> <<1, 2>>
      [] size = "HalfWidth"   -> <<2, 1>>
      [] size = "Quadrant"    -> <<2, 2>>
      [] size = "ThirdHeight" -> <<1, 3>>
      [] size = "Sextant"     -> <<2, 3>>

-----------------------------------------------------------------------------
(* Symbols *)

SPACE == 32
FULL_BLOCK == 9608
UPPER_HALF_BLOCK == 9600
LOWER_HALF_BLOCK == 9604
LEFT_HALF_BLOCK == 9612
RIGHT_HALF_BLOCK == 9616

get_symbol_half_height(top, bottom) ==
    IF top = 0
    THEN (IF bottom = 0 THEN SPACE ELSE LOWER_HALF_BLOCK)
    ELSE (IF bottom = 0 THEN UPPER_HALF_BLOCK ELSE FULL_BLOCK)

\* mutant: the two half blocks exchanged
get_symbol_half_width_swapped(left, right) ==
    IF left = 0
    THEN (IF right = 0 THEN SPACE ELSE LEFT_HALF_BLOCK)
    ELSE (IF right = 0 THEN RIGHT_HALF_BLOCK ELSE FULL_BLOCK)

get_symbol_half_width(left, right) ==
    IF left = 0
    THEN (IF right = 0 THEN SPACE ELSE RIGHT_HALF_BLOCK)
    ELSE (IF right = 0 THEN LEFT_HALF_BLOCK ELSE FULL_BLOCK)

\* indexed from 1 here, from 0 in the source
QUADRANT_SYMBOLS ==
    <<32, 9624, 9629, 9600, 9622, 9612, 9630, 9627,
      9623, 9626, 9616, 9628, 9604, 9625, 9631, 9608>>

\* mutant: the lowest bit is taken for the argument
Norm_low_bit(v) == v % 2

\* if v > 0 { 1 } else { 0 }
Norm(v) == IF v > 0 THEN 1 ELSE 0

\* mutant: the quadrants weighed column by column
quadrant_index_by_column(top_left, top_right, bottom_left, bottom_right) ==
    Norm(top_left) + Norm(bottom_left) * 2 + Norm(top_right) * 4
        + Norm(bottom_right) * 8

quadrant_index(top_left, top_right, bottom_left, bottom_right) ==
    Norm(top_left) + Norm(top_right) * 2 + Norm(bottom_left) * 4
        + Norm(bottom_right) * 8

get_symbol_quadrant_size(top_left, top_right, bottom_left, bottom_right) ==
    QUADRANT_SYMBOLS[quadrant_index(top_left, top_right, bottom_left, bottom_right) + 1]

\* mutant: the left half block stands at the place of the right half block
SEXANT_SYMBOLS_left_half_twice ==
    <<32, 129792, 129793, 129794, 129795, 129796, 129797, 129798,
      129799, 129800, 129801, 129802, 129803, 129804, 129805, 129806,
      129807, 129808, 129809, 129810, 129811, 9612, 129812, 129813,
      129814, 129815, 129816, 129817, 129818, 129819, 129820, 129821,
      129822, 129823, 129824, 129825, 129826, 129827, 129828, 129829,
      129830, 129831, 9612, 129832, 129833, 129834, 129835, 129836,
      129837, 129838, 129839, 129840, 129841, 129842, 129843, 129844,
      129845, 129846, 129847, 129848, 129849, 129850, 129851, 9608>>

\* indexed from 1 here, from 0 in the source
SEXANT_SYMBOLS ==
    <<32, 129792, 129793, 129794, 129795, 129796, 129797, 129798,
      129799, 129800, 129801, 129802, 129803, 129804, 129805, 129806,
      129807, 129808, 129809, 129810, 129811, 9612, 129812, 129813,
      129814, 129815, 129816, 129817, 129818, 129819, 129820, 129821,
      129822, 129823, 129824, 129825, 129826, 129827, 129828, 129829,
      129830, 129831, 9616, 129832, 129833, 129834, 129835, 129836,
      129837, 129838, 129839, 129840, 129841, 129842, 129843, 129844,
      129845, 129846, 129847, 129848, 129849, 129850, 129851, 9608>>

\* mutant: the sextants weighed column by column
sextant_index_by_column(tl, tr, ml, mr, bl, br) ==
    Norm(tl) + Norm(ml) * 2 + Norm(bl) * 4 + Norm(tr) * 8 + Norm(mr) * 16
        + Norm(br) * 32

\* tl, tr: top left, right; ml, mr: middle; bl, br: bottom
sextant_index(tl, tr, ml, mr, bl, br) ==
    Norm(tl) + Norm(tr) * 2 + Norm(ml) * 4 + Norm(mr) * 8 + Norm(bl) * 16
        + Norm(br) * 32

get_symbol_sextantant_size(tl, tr, ml, mr, bl, br) ==
    SEXANT_SYMBOLS[sextant_index(tl, tr, ml, mr, bl, br) + 1]

\* mutant: the three bits repeated in turn instead of each one doubled
get_symbol_third_height_in_turn(top, middle, bottom) ==
    get_symbol_sextantant_size(top, middle, bottom, top, middle, bottom)

get_symbol_third_height(top, middle, bottom) ==
    get_symbol_sextantant_size(top, top, middle, middle, bottom, bottom)


-----------------------------------------------------------------------------
(* Style, Cell and Buffer of the host framework, as the widget uses them *)

None == "None"
Reset == "Reset"

\* Style::default(): nothing set
StyleDefault == [fg |-> None, bg |-> None, add_modifier |-> {}, sub_modifier |-> {}]

\* Style::patch: attributes set by other win, the rest are kept
patch(self, other) ==
    [fg |-> IF other.fg # None THEN other.fg ELSE self.fg,
     bg |-> IF other.bg # None THEN other.bg ELSE self.bg,
     add_modifier |-> (self.add_modifier \ other.sub_modifier) \cup other.add_modifier,
     sub_modifier |-> (self.sub_modifier \ other.add_modifier) \cup other.sub_modifier]

\* Cell::default(): a space with the terminal's default colours
CellDefault == [symbol |-> SPACE, fg |-> Reset, bg |-> Reset, modifier |-> {}]

\* mutant: the modifiers the style adds are toggled in the cell
cell_set_style_toggle(cell, style) ==
    [symbol |-> cell.symbol,
     fg |-> IF style.fg # None THEN style.fg ELSE cell.fg,
     bg |-> IF style.bg # None THEN style.bg ELSE cell.bg,
     modifier |-> ((cell.modifier \ style.add_modifier)
                     \cup (style.add_modifier \ cell.modifier)) \ style.sub_modifier]

\* Cell::set_style: only what the style sets is changed; the symbol is kept
cell_set_style(cell, style) ==
    [symbol |-> cell.symbol,
     fg |-> IF style.fg # None THEN style.fg ELSE cell.fg,
     bg |-> IF style.bg # None THEN style.bg ELSE cell.bg,
     modifier |-> (cell.modifier \cup style.add_modifier) \ style.sub_modifier]

\* mutant: the cell is reset before the symbol is set
cell_set_char_reset(cell, ch) ==
    [symbol |-> ch, fg |-> Reset, bg |-> Reset, modifier |-> {}]

\* Cell::set_char: only the symbol is changed
cell_set_char(cell, ch) == [cell EXCEPT !.symbol = ch]

\* Rect
Rect(x, y, width, height) == [x |-> x, y |-> y, width |-> width, height |-> height]
left(r) == r.x
top(r) == r.y
right(r) == saturating_add(r.x, r.width)
bottom(r) == saturating_add(r.y, r.height)

\* the positions of a Rect
Positions(r) ==
    {p \in (left(r) .. right(r) - 1) \X (top(r) .. bottom(r) - 1) : TRUE}

\* whether position p lies in the Rect
InRect(p, r) ==
    /\ left(r) <= p[1] /\ p[1] < right(r)
    /\ top(r) <= p[2] /\ p[2] < bottom(r)

\* mutant: the style runs on from the Rect to the right edge of the buffer
buf_set_style_to_right(b, r, style) ==
    [p \in DOMAIN b |->
        IF left(r) <= p[1] /\ top(r) <= p[2] /\ p[2] < bottom(r)
        THEN cell_set_style(b[p], style) ELSE b[p]]

\* Buffer::set_style(area, style)
buf_set_style(b, r, style) ==
    [p \in DOMAIN b |->
        IF InRect(p, r) THEN cell_set_style(b[p], style) ELSE b[p]]

-----------------------------------------------------------------------------
(* layout *)

\* the lines layout writes with println!: at Sextant, the width and height of
\* a layout cell
layout_println(pixel_size) ==
    LET step   == pixels_per_cell(pixel_size)
        width  == div_ceil(8, step[1])
        height == div_ceil(8, step[2])
    IN  IF pixel_size = "Sextant"
        THEN << [width |-> width, height |-> height] >>
        ELSE <<>>

\* mutant: only the cells that fit whole in the area are laid out
layout_whole_cells(a, pixel_size) ==
    LET step   == pixels_per_cell(pixel_size)
        width  == div_ceil(8, step[1])
        height == div_ceil(8, step[2])
        ys     == step_by(top(a), bottom(a) - height + 1, height)
        xs     == step_by(left(a), right(a) - width + 1, width)
    IN  [i \in 1 .. Len(ys) |->
            [j \in 1 .. Len(xs) |-> Rect(xs[j], ys[i], width, height)]]

\* mutant: the last column and row are not clipped to the area
layout_unclipped(a, pixel_size) ==
    LET step   == pixels_per_cell(pixel_size)
        width  == div_ceil(8, step[1])
        height == div_ceil(8, step[2])
        ys     == step_by(top(a), bottom(a), height)
        xs     == step_by(left(a), right(a), width)
    IN  [i \in 1 .. Len(ys) |->
            [j \in 1 .. Len(xs) |-> Rect(xs[j], ys[i], width, height)]]

layout(a, pixel_size) ==
    LET step   == pixels_per_cell(pixel_size)
        width  == div_ceil(8, step[1])
        height == div_ceil(8, step[2])
        ys     == step_by(top(a), bottom(a), height)
        xs     == step_by(left(a), right(a), width)
    IN  [i \in 1 .. Len(ys) |->
            [j \in 1 .. Len(xs) |->
                Rect(xs[j], ys[i],
                     Min(right(a) - xs[j], width),
                     Min(bottom(a) - ys[i], height))]]

-----------------------------------------------------------------------------
(* The font: font8x8::BASIC_FONTS.get(c) *)

\* 'S', 'g' as the tests draw them; '_' and ' ' of the basic set
CH_S == 83
CH_g == 103
CH_UNDERSCORE == 95
CH_SPACE == 32
\* a character outside the basic set (U+00E9): no bitmap
CH_E_ACUTE == 233
\* a combining mark (U+0308): it makes one grapheme with the character before
CH_DIAERESIS == 776
NoGlyph == <<>>

BASIC_FONTS_get(c) ==
    CASE c = CH_S          -> <<30, 51, 7, 14, 56, 51, 30, 0>>
      [] c = CH_g          -> <<0, 0, 110, 51, 51, 62, 48, 31>>
      [] c = CH_UNDERSCORE -> <<0, 0, 0, 0, 0, 0, 0, 255>>
      [] c = CH_SPACE      -> <<0, 0, 0, 0, 0, 0, 0, 0>>
      [] OTHER             -> NoGlyph

-----------------------------------------------------------------------------
(* render_glyph *)

\* mutant: the rows past the bitmap are read as set
symbol_character_padding_set(glyph, row, col, pixel_size) ==
    CASE pixel_size = "Full" ->
            IF BitAnd1Shl(glyph[row + 1], col) = 0 THEN SPACE ELSE FULL_BLOCK
      [] pixel_size = "HalfHeight" ->
            get_symbol_half_height(BitAnd1Shl(glyph[row + 1], col),
                                   BitAnd1Shl(glyph[row + 2], col))
      [] pixel_size = "HalfWidth" ->
            get_symbol_half_width(BitAnd1Shl(glyph[row + 1], col),
                                  BitAnd1Shl(glyph[row + 1], col + 1))
      [] pixel_size = "Quadrant" ->
            get_symbol_quadrant_size(BitAnd1Shl(glyph[row + 1], col),
                                     BitAnd1Shl(glyph[row + 1], col + 1),
                                     BitAnd1Shl(glyph[row + 2], col),
                                     BitAnd1Shl(glyph[row + 2], col + 1))
      [] pixel_size = "ThirdHeight" ->
            LET t == BitAnd1Shl(glyph[row + 1], col)
                m == IF row + 1 < Len(glyph)
                     THEN BitAnd1Shl(glyph[row + 2], col) ELSE 1
                b == IF row + 2 < Len(glyph)
                     THEN BitAnd1Shl(glyph[row + 3], col) ELSE 1
            IN  get_symbol_third_height(t, m, b)
      [] pixel_size = "Sextant" ->
            LET tl == BitAnd1Shl(glyph[row + 1], col)
                tr == BitAnd1Shl(glyph[row + 1], col + 1)
                is_middle_avalable == row + 1 < Len(glyph)
                ml == IF is_middle_avalable
                      THEN BitAnd1Shl(glyph[row + 2], col) ELSE 1
                mr == IF is_middle_avalable
                      THEN BitAnd1Shl(glyph[row + 2], col + 1) ELSE 1
                is_bottom_avalable == row + 2 < Len(glyph)
                bl == IF is_bottom_avalable
                      THEN BitAnd1Shl(glyph[row + 3], col) ELSE 1
                br == IF is_bottom_avalable
                      THEN BitAnd1Shl(glyph[row + 3], col + 1) ELSE 1
            IN  get_symbol_sextantant_size(tl, tr, ml, mr, bl, br)

\* the match on pixel_size: the symbol for the block at (row, col), 0-based
symbol_character(glyph, row, col, pixel_size) ==
    CASE pixel_size = "Full" ->
            IF BitAnd1Shl(glyph[row + 1], col) = 0 THEN SPACE ELSE FULL_BLOCK
      [] pixel_size = "HalfHeight" ->
            get_symbol_half_height(BitAnd1Shl(glyph[row + 1], col),
                                   BitAnd1Shl(glyph[row + 2], col))
      [] pixel_size = "HalfWidth" ->
            get_symbol_half_width(BitAnd1Shl(glyph[row + 1], col),
                                  BitAnd1Shl(glyph[row + 1], col + 1))
      [] pixel_size = "Quadrant" ->
            get_symbol_quadrant_size(BitAnd1Shl(glyph[row + 1], col),
                                     BitAnd1Shl(glyph[row + 1], col + 1),
                                     BitAnd1Shl(glyph[row + 2], col),
                                     BitAnd1Shl(glyph[row + 2], col + 1))
      [] pixel_size = "ThirdHeight" ->
            LET t == BitAnd1Shl(glyph[row + 1], col)
                m == IF row + 1 < Len(glyph)
                     THEN BitAnd1Shl(glyph[row + 2], col) ELSE 0
                b == IF row + 2 < Len(glyph)
                     THEN BitAnd1Shl(glyph[row + 3], col) ELSE 0
            IN  get_symbol_third_height(t, m, b)
      [] pixel_size = "Sextant" ->
            LET tl == BitAnd1Shl(glyph[row + 1], col)
                tr == BitAnd1Shl(glyph[row + 1], col + 1)
                is_middle_avalable == row + 1 < Len(glyph)
                ml == IF is_middle_avalable
                      THEN BitAnd1Shl(glyph[row + 2], col) ELSE 0
                mr == IF is_middle_avalable
                      THEN BitAnd1Shl(glyph[row + 2], col + 1) ELSE 0
                is_bottom_avalable == row + 2 < Len(glyph)
                bl == IF is_bottom_avalable
                      THEN BitAnd1Shl(glyph[row + 3], col) ELSE 0
                br == IF is_bottom_avalable
                      THEN BitAnd1Shl(glyph[row + 3], col + 1) ELSE 0
            IN  get_symbol_sextantant_size(tl, tr, ml, mr, bl, br)

\* mutant: a clipped area is given the last sampled rows and columns of the
\* glyph instead of the first
render_glyph_last_samples(glyph, a, b, pixel_size) ==
    LET step == pixels_per_cell(pixel_size)
        glyph_vertical_index == step_by(0, Len(glyph), step[2])
        glyph_horizontal_bit_selector == step_by(0, 8, step[1])
        dy == Len(glyph_vertical_index) - Min(a.height, Len(glyph_vertical_index))
        dx == Len(glyph_horizontal_bit_selector)
                - Min(a.width, Len(glyph_horizontal_bit_selector))
    IN  [p \in DOMAIN b |->
            IF /\ InRect(p, a)
               /\ p[2] - top(a) + 1 <= Len(glyph_vertical_index)
               /\ p[1] - left(a) + 1 <= Len(glyph_horizontal_bit_selector)
            THEN cell_set_char(b[p],
                    symbol_character(glyph,
                        glyph_vertical_index[p[2] - top(a) + 1 + dy],
                        glyph_horizontal_bit_selector[p[1] - left(a) + 1 + dx],
                        pixel_size))
            ELSE b[p]]

\* mutant: the sampled rows and columns are not zipped with the rows and
\* columns of the area: the whole glyph is written from the area's origin
render_glyph_whole(glyph, a, b, pixel_size) ==
    LET step == pixels_per_cell(pixel_size)
        glyph_vertical_index == step_by(0, Len(glyph), step[2])
        glyph_horizontal_bit_selector == step_by(0, 8, step[1])
    IN  [p \in DOMAIN b |->
            IF /\ top(a) <= p[2] /\ left(a) <= p[1]
               /\ p[2] - top(a) + 1 <= Len(glyph_vertical_index)
               /\ p[1] - left(a) + 1 <= Len(glyph_horizontal_bit_selector)
            THEN cell_set_char(b[p],
                    symbol_character(glyph,
                        glyph_vertical_index[p[2] - top(a) + 1],
                        glyph_horizontal_bit_selector[p[1] - left(a) + 1],
                        pixel_size))
            ELSE b[p]]

\* The two zipped loops: the k-th sampled bitmap row goes to the k-th row of
\* the area, the k-th sampled bit to its k-th column; each position of the
\* area that has both is written once.
render_glyph(glyph, a, b, pixel_size) ==
    LET step == pixels_per_cell(pixel_size)
        glyph_vertical_index == step_by(0, Len(glyph), step[2])
        glyph_horizontal_bit_selector == step_by(0, 8, step[1])
    IN  [p \in DOMAIN b |->
            IF /\ InRect(p, a)
               /\ p[2] - top(a) + 1 <= Len(glyph_vertical_index)
               /\ p[1] - left(a) + 1 <= Len(glyph_horizontal_bit_selector)
            THEN cell_set_char(b[p],
                    symbol_character(glyph,
                        glyph_vertical_index[p[2] - top(a) + 1],
                        glyph_horizontal_bit_selector[p[1] - left(a) + 1],
                        pixel_size))
            ELSE b[p]]

-----------------------------------------------------------------------------
(* render_symbol and render *)

\* mutant: the style is set only when the character has a bitmap
render_symbol_glyph_only(grapheme, a, b, pixel_size) ==
    LET c      == Head(grapheme.symbol)
        glyph  == BASIC_FONTS_get(c)
    IN  IF glyph # NoGlyph
        THEN render_glyph(glyph, a, buf_set_style(b, a, grapheme.style), pixel_size)
        ELSE b

\* mutant: a character the font has no bitmap for is drawn as a blank
render_symbol_blank_missing(grapheme, a, b, pixel_size) ==
    LET styled == buf_set_style(b, a, grapheme.style)
        c      == Head(grapheme.symbol)
        glyph  == BASIC_FONTS_get(c)
    IN  IF glyph # NoGlyph
        THEN render_glyph(glyph, a, styled, pixel_size)
        ELSE render_glyph(BASIC_FONTS_get(CH_SPACE), a, styled, pixel_size)

\* mutant: the bitmap of the last code point of the grapheme is drawn
render_symbol_last_codepoint(grapheme, a, b, pixel_size) ==
    LET styled == buf_set_style(b, a, grapheme.style)
        c      == grapheme.symbol[Len(grapheme.symbol)]
        glyph  == BASIC_FONTS_get(c)
    IN  IF glyph # NoGlyph
        THEN render_glyph(glyph, a, styled, pixel_size)
        ELSE styled

\* grapheme: [symbol |-> sequence of code points, style |-> Style]
render_symbol(grapheme, a, b, pixel_size) ==
    LET styled == buf_set_style(b, a, grapheme.style)
        c      == Head(grapheme.symbol)
        glyph  == BASIC_FONTS_get(c)
    IN  IF glyph # NoGlyph
        THEN render_glyph(glyph, a, styled, pixel_size)
        ELSE styled

\* mutant: the base style is dropped
styled_graphemes_own_style(line, base_style) ==
    [j \in 1 .. Len(line) |-> [symbol |-> line[j].symbol, style |-> line[j].style]]

\* Line::styled_graphemes(base_style)
styled_graphemes(line, base_style) ==
    [j \in 1 .. Len(line) |->
        [symbol |-> line[j].symbol, style |-> patch(base_style, line[j].style)]]

\* the inner loop, from the j-th pair of the zip on
RECURSIVE render_graphemes(_, _, _, _, _)
render_graphemes(gs, cells, j, b, pixel_size) ==
    IF j > Len(gs) \/ j > Len(cells) THEN b
    ELSE render_graphemes(gs, cells, j + 1,
            render_symbol(gs[j], cells[j], b, pixel_size), pixel_size)

\* mutant: an empty line takes no row of the layout
RECURSIVE render_lines_from(_, _, _, _, _)
render_lines_from(self, rows, i, r, b) ==
    IF i > Len(self.lines) \/ r > Len(rows) THEN b
    ELSE IF self.lines[i] = <<>> THEN render_lines_from(self, rows, i + 1, r, b)
    ELSE render_lines_from(self, rows, i + 1, r + 1,
            render_graphemes(styled_graphemes(self.lines[i], self.style),
                             rows[r], 1, b, self.pixel_size))

render_lines_skip_empty(self, rows, i, b) == render_lines_from(self, rows, i, i, b)

\* the outer loop, from the i-th pair of the zip on
RECURSIVE render_lines(_, _, _, _)
render_lines(self, rows, i, b) ==
    IF i > Len(self.lines) \/ i > Len(rows) THEN b
    ELSE render_lines(self, rows, i + 1,
            render_graphemes(styled_graphemes(self.lines[i], self.style),
                             rows[i], 1, b, self.pixel_size))

render(self, a, b) == render_lines(self, layout(a, self.pixel_size), 1, b)


-----------------------------------------------------------------------------
(* Bounds and inputs *)

\* the destination buffer covers (0, 0) .. (GridW - 1, GridH - 1)
GridW == 10
GridH == 10

\* layout() is tried on every area with origin up to MaxOrigin and sides up
\* to MaxSide
MaxOrigin == 2
MaxSide == 17

GridPositions == (0 .. GridW - 1) \X (0 .. GridH - 1)

G(c, style) == [symbol |-> <<c>>, style |-> style]

\* a grapheme of several code points
Cluster(cs, style) == [symbol |-> cs, style |-> style]

Fg(colour) == [StyleDefault EXCEPT !.fg = colour]

Plain == StyleDefault
Red == Fg("Red")
Blue == Fg("Blue")
Green == Fg("Green")
BoldOnBlue ==
    [fg |-> "Yellow", bg |-> "Blue", add_modifier |-> {"BOLD"}, sub_modifier |-> {}]

\* the texts: each a sequence of lines, each line a sequence of graphemes
Texts ==
    { <<>>,
      << <<G(CH_S, Plain)>> >>,
      << <<G(CH_S, Red), G(CH_g, Red)>>,
         <<G(CH_UNDERSCORE, Blue), G(CH_S, Blue)>> >>,
      << <<>>, <<G(CH_g, Plain)>> >>,
      << <<G(CH_E_ACUTE, Red), G(CH_S, Red)>> >>,
      << <<G(CH_S, Plain), G(CH_g, Green), G(CH_UNDERSCORE, Plain)>>,
         <<G(CH_SPACE, Plain)>>,
         <<G(CH_UNDERSCORE, Plain)>>, <<G(CH_S, Red)>>, <<G(CH_g, Plain)>> >> }

BaseStyles == {StyleDefault, BoldOnBlue}

Widgets == [lines : Texts, style : BaseStyles, pixel_size : PixelSize]

\* Buffer::empty, and a buffer some earlier widget has drawn on
BufferEmpty == [p \in GridPositions |-> CellDefault]
BufferUsed ==
    [p \in GridPositions |->
        [symbol |-> 120, fg |-> "Cyan", bg |-> "Black", modifier |-> {"ITALIC"}]]

InitialBuffers == {BufferEmpty, BufferUsed}

\* the areas render is called with, all inside the buffer
Areas ==
    { Rect(x, y, w, h) :
        x \in {0, 1}, y \in {0, 1},
        w \in {0, 3, 8, GridW - 1}, h \in {0, 2, 8, GridH - 1} }

LayoutAreas ==
    { Rect(x, y, w, h) :
        x \in 0 .. MaxOrigin, y \in 0 .. MaxOrigin,
        w \in 0 .. MaxSide, h \in 0 .. MaxSide }

\* the u8 values the symbol functions are tried on
ArgValues == {0, 1, 128}

\* sequences of render calls: at most MaxCalls calls, each with one of these
\* widgets and areas (two of the areas overlap, one reaches the right and
\* bottom edges of the buffer)
MaxCalls == 2

SeqSizes == {"Full", "HalfHeight", "Sextant"}

SeqWidgets ==
    { [lines |-> << <<G(CH_S, Red)>> >>, style |-> StyleDefault, pixel_size |-> d] :
        d \in SeqSizes }
    \cup
    { [lines |-> << <<G(CH_E_ACUTE, Blue), G(CH_g, Plain)>>,
                    <<G(CH_UNDERSCORE, Green)>> >>,
       style |-> BoldOnBlue, pixel_size |-> d] : d \in SeqSizes }

SeqAreas == {Rect(0, 0, 4, 3), Rect(1, 1, 8, 8), Rect(5, 2, GridW - 5, GridH - 2)}

\* what the builder's setters are called with
BuildLines ==
    { <<>>,
      << <<G(CH_S, Plain)>> >>,
      << <<G(CH_E_ACUTE, Red), G(CH_S, Red)>> >>,
      << <<Cluster(<<CH_S, CH_DIAERESIS>>, Red), G(CH_g, Red),
           Cluster(<<CH_E_ACUTE, CH_DIAERESIS>>, Red)>> >> }

\* two render passes on one buffer, into areas that share no cell: side by
\* side, and one above the other
PassAreas ==
    { <<Rect(0, 0, 3, 2), Rect(3, 0, 2, 2)>>,
      <<Rect(1, 1, 4, 4), Rect(1, 5, 4, 2)>> }

PassJobs ==
    { << [widget |-> w1, area |-> aa[1]], [widget |-> w2, area |-> aa[2]] >> :
        w1 \in SeqWidgets, w2 \in SeqWidgets, aa \in PassAreas }

NoArea == Rect(0, 0, 0, 0)

-----------------------------------------------------------------------------
(* render as the sequence of cell operations it makes on the buffer *)

Max(a, b) == IF a > b THEN a ELSE b

\* Buffer::area of the destination
buf_area == Rect(0, 0, GridW, GridH)

\* Rect::intersection
intersection(r, s) ==
    LET x1 == Max(r.x, s.x)
        y1 == Max(r.y, s.y)
        x2 == Min(right(r), right(s))
        y2 == Min(bottom(r), bottom(s))
    IN  Rect(x1, y1, Max(x2 - x1, 0), Max(y2 - y1, 0))

\* one operation on the cell at (x, y): set_style; get_mut, the match on
\* pixel_size for the block at (row, col) of the glyph and set_char; "panic"
\* stands for an index out of range or an unwrap of nothing
StyleOp(x, y, style) == [kind |-> "set_style", x |-> x, y |-> y, style |-> style]
CharOp(x, y, glyph, row, col, pixel_size) ==
    [kind |-> "set_char", x |-> x, y |-> y,
     glyph |-> glyph, row |-> row, col |-> col, pixel_size |-> pixel_size]
PanicOp(x, y) == [kind |-> "panic", x |-> x, y |-> y]

\* mutant: the style operations run on to the right edge of the buffer
set_style_ops_to_right(r, style) ==
    LET a == intersection(buf_area, Rect(r.x, r.y, GridW, r.height))
    IN  [k \in 1 .. a.width * a.height |->
            StyleOp(a.x + ((k - 1) % a.width), a.y + ((k - 1) \div a.width), style)]

\* Buffer::set_style(area, style): the cells of the part of the area that is
\* in the buffer, row by row
set_style_ops(r, style) ==
    LET a == intersection(buf_area, r)
    IN  [k \in 1 .. a.width * a.height |->
            StyleOp(a.x + ((k - 1) % a.width), a.y + ((k - 1) \div a.width), style)]

\* mutant: the guards on the rows below the sampled one are dropped
glyph_rows_read_unguarded(row, pixel_size, len) ==
    CASE pixel_size \in {"Full", "HalfWidth"}        -> {row}
      [] pixel_size \in {"HalfHeight", "Quadrant"}   -> {row, row + 1}
      [] pixel_size \in {"ThirdHeight", "Sextant"}   -> {row, row + 1, row + 2}

\* the rows of the bitmap the match on pixel_size indexes for a sampled row
glyph_rows_read(row, pixel_size, len) ==
    CASE pixel_size \in {"Full", "HalfWidth"}        -> {row}
      [] pixel_size \in {"HalfHeight", "Quadrant"}   -> {row, row + 1}
      [] pixel_size \in {"ThirdHeight", "Sextant"}   ->
            {row} \cup (IF row + 1 < len THEN {row + 1} ELSE {})
                  \cup (IF row + 2 < len THEN {row + 2} ELSE {})

\* mutant: every density tests the bit to the right of the sampled one
glyph_bits_read_paired(col, pixel_size) == {col, col + 1}

\* the bit positions the match on pixel_size shifts by for a sampled column
glyph_bits_read(col, pixel_size) ==
    CASE pixel_size \in {"Full", "HalfHeight", "ThirdHeight"} -> {col}
      [] pixel_size \in {"HalfWidth", "Quadrant", "Sextant"}  -> {col, col + 1}

\* render_glyph: the (row index, bit position) pairs of the bitmap read when
\* a glyph of len rows is drawn into the layout cell a
glyph_reads(a, pixel_size, len) ==
    LET step == pixels_per_cell(pixel_size)
        glyph_vertical_index == step_by(0, len, step[2])
        glyph_horizontal_bit_selector == step_by(0, 8, step[1])
        nr == Min(Len(glyph_vertical_index), bottom(a) - top(a))
        nc == Min(Len(glyph_horizontal_bit_selector), right(a) - left(a))
    IN  UNION { glyph_rows_read(glyph_vertical_index[i], pixel_size, len)
                    \X glyph_bits_read(glyph_horizontal_bit_selector[j], pixel_size) :
                <<i, j>> \in (1 .. nr) \X (1 .. nc) }

\* render_glyph: for each zipped (row, y) and (col, x), get_mut(x, y), the
\* match, set_char
glyph_ops(glyph, a, pixel_size) ==
    LET step == pixels_per_cell(pixel_size)
        glyph_vertical_index == step_by(0, Len(glyph), step[2])
        glyph_horizontal_bit_selector == step_by(0, 8, step[1])
        nr == Min(Len(glyph_vertical_index), bottom(a) - top(a))
        nc == Min(Len(glyph_horizontal_bit_selector), right(a) - left(a))
    IN  [k \in 1 .. nr * nc |->
            LET i   == (k - 1) \div nc
                j   == (k - 1) % nc
                row == glyph_vertical_index[i + 1]
                col == glyph_horizontal_bit_selector[j + 1]
            IN  IF \A r \in glyph_rows_read(row, pixel_size, Len(glyph)) : r < Len(glyph)
                THEN CharOp(left(a) + j, top(a) + i, glyph, row, col, pixel_size)
                ELSE PanicOp(left(a) + j, top(a) + i)]

\* render_symbol: set_style, chars().next().unwrap(), then the glyph if the
\* font has one
symbol_ops(grapheme, a, pixel_size) ==
    set_style_ops(a, grapheme.style) \o
        (IF grapheme.symbol = <<>> THEN <<PanicOp(left(a), top(a))>>
         ELSE IF BASIC_FONTS_get(Head(grapheme.symbol)) = NoGlyph THEN <<>>
         ELSE glyph_ops(BASIC_FONTS_get(Head(grapheme.symbol)), a, pixel_size))

\* mutant: every grapheme of the line is drawn into the first cell of the row
RECURSIVE graphemes_ops_first_cell(_, _, _, _)
graphemes_ops_first_cell(gs, cells, j, pixel_size) ==
    IF j > Len(gs) \/ Len(cells) = 0 THEN <<>>
    ELSE symbol_ops(gs[j], cells[1], pixel_size)
            \o graphemes_ops_first_cell(gs, cells, j + 1, pixel_size)

\* the inner loop of render, from the j-th pair of the zip on
RECURSIVE graphemes_ops(_, _, _, _)
graphemes_ops(gs, cells, j, pixel_size) ==
    IF j > Len(gs) \/ j > Len(cells) THEN <<>>
    ELSE symbol_ops(gs[j], cells[j], pixel_size)
            \o graphemes_ops(gs, cells, j + 1, pixel_size)

\* the outer loop of render, from the i-th pair of the zip on
RECURSIVE lines_ops(_, _, _)
lines_ops(self, rows, i) ==
    IF i > Len(self.lines) \/ i > Len(rows) THEN <<>>
    ELSE graphemes_ops(styled_graphemes(self.lines[i], self.style), rows[i],
                       1, self.pixel_size)
            \o lines_ops(self, rows, i + 1)

render_ops(self, a) == lines_ops(self, layout(a, self.pixel_size), 1)

\* Buffer::get_mut panics outside the area of the buffer
op_panics(b, op) ==
    \/ op.kind = "panic"
    \/ op.kind = "set_char" /\ ~InRect(<<op.x, op.y>>, buf_area)

apply_op(b, op) ==
    IF op.kind = "set_style"
    THEN [b EXCEPT ![<<op.x, op.y>>] = cell_set_style(@, op.style)]
    ELSE [b EXCEPT ![<<op.x, op.y>>] =
            cell_set_char(@, symbol_character(op.glyph, op.row, op.col, op.pixel_size))]

\* the number of operations made before the first that panics
RECURSIVE completed_ops(_, _, _)
completed_ops(ops, k, b) ==
    IF k > Len(ops) \/ op_panics(b, ops[k]) THEN k - 1
    ELSE completed_ops(ops, k + 1, b)

RECURSIVE run_ops(_, _, _)
run_ops(ops, n, b) ==
    IF n = 0 THEN b ELSE apply_op(run_ops(ops, n - 1, b), ops[n])

\* whether a render call panics
render_panics(self, a, b) ==
    LET ops == render_ops(self, a)
    IN  completed_ops(ops, 1, b) < Len(ops)

\* the buffer a render call that panics leaves: the operations made before
\* the panic
render_partial(self, a, b) ==
    LET ops == render_ops(self, a)
    IN  run_ops(ops, completed_ops(ops, 1, b), b)

-----------------------------------------------------------------------------
(* Spec: a widget is rendered once into an area of the buffer *)

RenderIdle == /\ widget = "none" /\ buf = <<>> /\ prev = <<>> /\ area = NoArea
LayoutIdle == /\ l_area = NoArea /\ l_size = "none" /\ l_rows = <<>>
SymbolIdle == /\ args = <<>> /\ fn = "none" /\ sym = 0
BuildIdle == builder = <<>>
SeqIdle == /\ first = <<>> /\ rects = {} /\ calls = 0
PassIdle == /\ jobs = <<>> /\ pending = <<>>

Init ==
    /\ pc = "built"
    /\ stdout = <<>>
    /\ widget \in Widgets
    /\ buf \in InitialBuffers
    /\ prev = buf
    /\ area = NoArea
    /\ BuildIdle
    /\ SeqIdle
    /\ PassIdle
    /\ LayoutIdle
    /\ SymbolIdle

\* impl Widget for BigText: render(self, area, buf) consumes the widget
Render ==
    /\ pc = "built"
    /\ \E a \in Areas :
        /\ area' = a
        /\ pc' = IF render_panics(widget, a, buf) THEN "panicked" ELSE "rendered"
        /\ buf' = IF pc' = "panicked" THEN render_partial(widget, a, buf)
                  ELSE render(widget, a, buf)
    /\ prev' = buf
    /\ stdout' = stdout \o layout_println(widget.pixel_size)
    /\ UNCHANGED <<widget, layoutVars, symbolVars, buildVars, seqVars, passVars>>

Next == Render

Spec == Init /\ [][Next]_vars

-----------------------------------------------------------------------------
(* SpecLayout: layout() applied to an area and a pixel size *)

InitLayout ==
    /\ pc = "layout"
    /\ stdout = <<>>
    /\ l_area \in LayoutAreas
    /\ l_size \in PixelSize
    /\ l_rows = <<>>
    /\ RenderIdle
    /\ BuildIdle
    /\ SeqIdle
    /\ PassIdle
    /\ SymbolIdle

Layout ==
    /\ pc = "layout"
    /\ pc' = "laid_out"
    /\ l_rows' = layout(l_area, l_size)
    /\ stdout' = stdout \o layout_println(l_size)
    /\ UNCHANGED <<l_area, l_size, renderVars, symbolVars, buildVars, seqVars, passVars>>

NextLayout == Layout

SpecLayout == InitLayout /\ [][NextLayout]_vars

-----------------------------------------------------------------------------
(* SpecSymbols: the symbol functions applied to u8 arguments *)

InitSymbols ==
    /\ pc = "symbol"
    /\ stdout = <<>>
    /\ args \in [1 .. 6 -> ArgValues]
    /\ fn = "none"
    /\ sym = 0
    /\ RenderIdle
    /\ BuildIdle
    /\ SeqIdle
    /\ PassIdle
    /\ LayoutIdle

HalfHeight ==
    /\ pc = "symbol"
    /\ pc' = "mapped"
    /\ fn' = "half_height"
    /\ sym' = get_symbol_half_height(args[1], args[2])
    /\ UNCHANGED <<args, renderVars, layoutVars, buildVars, seqVars, passVars, stdout>>

HalfWidth ==
    /\ pc = "symbol"
    /\ pc' = "mapped"
    /\ fn' = "half_width"
    /\ sym' = get_symbol_half_width(args[1], args[2])
    /\ UNCHANGED <<args, renderVars, layoutVars, buildVars, seqVars, passVars, stdout>>

QuadrantSize ==
    /\ pc = "symbol"
    /\ pc' = "mapped"
    /\ fn' = "quadrant_size"
    /\ sym' = get_symbol_quadrant_size(args[1], args[2], args[3], args[4])
    /\ UNCHANGED <<args, renderVars, layoutVars, buildVars, seqVars, passVars, stdout>>

SextantSize ==
    /\ pc = "symbol"
    /\ pc' = "mapped"
    /\ fn' = "sextant_size"
    /\ sym' = get_symbol_sextantant_size(args[1], args[2], args[3], args[4],
                                         args[5], args[6])
    /\ UNCHANGED <<args, renderVars, layoutVars, buildVars, seqVars, passVars, stdout>>

ThirdHeight ==
    /\ pc = "symbol"
    /\ pc' = "mapped"
    /\ fn' = "third_height"
    /\ sym' = get_symbol_third_height(args[1], args[2], args[3])
    /\ UNCHANGED <<args, renderVars, layoutVars, buildVars, seqVars, passVars, stdout>>

NextSymbols ==
    \/ HalfHeight
    \/ HalfWidth
    \/ QuadrantSize
    \/ SextantSize
    \/ ThirdHeight

SpecSymbols == InitSymbols /\ [][NextSymbols]_vars


-----------------------------------------------------------------------------
(* SpecSeq: render calls made one after another on one buffer *)

InitSeq ==
    /\ pc = "drawing"
    /\ stdout = <<>>
    /\ widget = "none"
    /\ buf \in InitialBuffers
    /\ prev = buf
    /\ first = buf
    /\ area = NoArea
    /\ rects = {}
    /\ calls = 0
    /\ BuildIdle
    /\ PassIdle
    /\ LayoutIdle
    /\ SymbolIdle

\* a widget is built and rendered into an area of the buffer
RenderNext ==
    /\ pc = "drawing"
    /\ calls < MaxCalls
    /\ \E w \in SeqWidgets, a \in SeqAreas :
        /\ widget' = w
        /\ area' = a
        /\ rects' = rects \cup {a}
        /\ pc' = IF render_panics(w, a, buf) THEN "panicked" ELSE "drawing"
        /\ buf' = IF pc' = "panicked" THEN render_partial(w, a, buf)
                  ELSE render(w, a, buf)
    /\ prev' = buf
    /\ calls' = calls + 1
    /\ stdout' = stdout \o layout_println(widget'.pixel_size)
    /\ UNCHANGED <<first, buildVars, passVars, layoutVars, symbolVars>>

NextSeq == RenderNext

SpecSeq == InitSeq /\ [][NextSeq]_vars

-----------------------------------------------------------------------------
(* SpecBuild: the builder derive(Builder) gives BigText, then render *)

\* BigTextBuilder::default(): no field set
BigTextBuilderDefault == [lines |-> <<>>, style |-> <<>>, pixel_size |-> <<>>]

BuildResult(ok, value, error) == [ok |-> ok, value |-> value, error |-> error]

\* mutant: a builder without lines builds a widget with none
build_lines_default(self) ==
    BuildResult(TRUE,
        [lines      |-> IF self.lines = <<>> THEN <<>> ELSE self.lines[1],
         style      |-> IF self.style = <<>> THEN StyleDefault ELSE self.style[1],
         pixel_size |-> IF self.pixel_size = <<>> THEN PixelSizeDefault
                        ELSE self.pixel_size[1]],
        "none")

\* mutant: an empty list of lines is refused
build_refuses_no_lines(self) ==
    IF self.lines = <<>> \/ self.lines[1] = <<>>
    THEN BuildResult(FALSE, "none", "UninitializedField(lines)")
    ELSE BuildResult(TRUE,
            [lines      |-> self.lines[1],
             style      |-> IF self.style = <<>> THEN StyleDefault ELSE self.style[1],
             pixel_size |-> IF self.pixel_size = <<>> THEN PixelSizeDefault
                            ELSE self.pixel_size[1]],
            "none")

\* mutant: the pixel size given to the builder is dropped
build_default_pixel_size(self) ==
    IF self.lines = <<>>
    THEN BuildResult(FALSE, "none", "UninitializedField(lines)")
    ELSE BuildResult(TRUE,
            [lines      |-> self.lines[1],
             style      |-> IF self.style = <<>> THEN StyleDefault ELSE self.style[1],
             pixel_size |-> PixelSizeDefault],
            "none")

\* BigTextBuilder::build: lines is required, style and pixel_size have
\* #[builder(default)]
build(self) ==
    IF self.lines = <<>>
    THEN BuildResult(FALSE, "none", "UninitializedField(lines)")
    ELSE BuildResult(TRUE,
            [lines      |-> self.lines[1],
             style      |-> IF self.style = <<>> THEN StyleDefault ELSE self.style[1],
             pixel_size |-> IF self.pixel_size = <<>> THEN PixelSizeDefault
                            ELSE self.pixel_size[1]],
            "none")

InitBuild ==
    /\ pc = "building"
    /\ stdout = <<>>
    /\ builder = BigTextBuilderDefault
    /\ widget = "none"
    /\ buf \in InitialBuffers
    /\ prev = buf
    /\ area = NoArea
    /\ SeqIdle
    /\ PassIdle
    /\ LayoutIdle
    /\ SymbolIdle

\* BigTextBuilder::lines
SetLines ==
    /\ pc = "building"
    /\ \E value \in BuildLines : builder' = [builder EXCEPT !.lines = <<value>>]
    /\ UNCHANGED <<pc, renderVars, seqVars, passVars, layoutVars, symbolVars, stdout>>

\* BigTextBuilder::style
SetStyle ==
    /\ pc = "building"
    /\ \E value \in BaseStyles : builder' = [builder EXCEPT !.style = <<value>>]
    /\ UNCHANGED <<pc, renderVars, seqVars, passVars, layoutVars, symbolVars, stdout>>

\* BigTextBuilder::pixel_size
SetPixelSize ==
    /\ pc = "building"
    /\ \E value \in PixelSize : builder' = [builder EXCEPT !.pixel_size = <<value>>]
    /\ UNCHANGED <<pc, renderVars, seqVars, passVars, layoutVars, symbolVars, stdout>>

\* BigTextBuilder::build
Build ==
    /\ pc = "building"
    /\ LET result == build(builder)
       IN  IF result.ok
           THEN pc' = "built" /\ widget' = result.value
           ELSE pc' = "build_failed" /\ widget' = widget
    /\ UNCHANGED <<builder, buf, prev, area, seqVars, passVars, layoutVars, symbolVars,
                   stdout>>

NextBuild == SetLines \/ SetStyle \/ SetPixelSize \/ Build \/ Render

SpecBuild == InitBuild /\ [][NextBuild]_vars

-----------------------------------------------------------------------------
(* SpecPasses: the cell operations of two render calls, interleaved *)

InitPasses ==
    /\ pc = "passes"
    /\ jobs \in PassJobs
    /\ pending = <<render_ops(jobs[1].widget, jobs[1].area),
                   render_ops(jobs[2].widget, jobs[2].area)>>
    /\ stdout = layout_println(jobs[1].widget.pixel_size)
                    \o layout_println(jobs[2].widget.pixel_size)
    /\ buf \in InitialBuffers
    /\ first = buf
    /\ prev = buf
    /\ widget = "none"
    /\ area = NoArea
    /\ rects = {}
    /\ calls = 0
    /\ BuildIdle
    /\ LayoutIdle
    /\ SymbolIdle

\* pass k makes its next cell operation
Write(k) ==
    /\ pc = "passes"
    /\ pending[k] # <<>>
    /\ ~op_panics(buf, Head(pending[k]))
    /\ buf' = apply_op(buf, Head(pending[k]))
    /\ prev' = buf
    /\ pending' = [pending EXCEPT ![k] = Tail(@)]
    /\ UNCHANGED <<pc, widget, area, jobs, first, rects, calls, buildVars,
                   layoutVars, symbolVars, stdout>>

WriteFirst == Write(1)
WriteSecond == Write(2)

NextPasses == WriteFirst \/ WriteSecond

SpecPasses == InitPasses /\ [][NextPasses]_vars

-----------------------------------------------------------------------------
(* What the claims refer to, stated without the operators above *)

CeilDiv(a, b) == IF a % b = 0 THEN a \div b ELSE a \div b + 1

StepX(size) == pixels_per_cell(size)[1]
StepY(size) == pixels_per_cell(size)[2]

\* the footprint of a glyph, in cells
CellW(size) == CeilDiv(8, StepX(size))
CellH(size) == CeilDiv(8, StepY(size))

\* the number of layout rows and columns of an area
Rows(a, size) == CeilDiv(a.height, CellH(size))
Cols(a, size) == CeilDiv(a.width, CellW(size))

\* the layout cell of row i, column j (from 0)
LayoutCell(a, size, i, j) ==
    LET x == a.x + j * CellW(size)
        y == a.y + i * CellH(size)
    IN  Rect(x, y, Min(CellW(size), a.x + a.width - x),
                   Min(CellH(size), a.y + a.height - y))

\* pixel (r, c) of a bitmap, from 0: bit c of the byte of row r; rows past
\* the bitmap are empty
PixelBit(glyph, r, c) == IF r < 8 THEN (glyph[r + 1] \div Pow2(c)) % 2 ELSE 0

\* the symbol tables as the tests enumerate them, by index from 0
HalfHeightReference(i) == <<SPACE, UPPER_HALF_BLOCK, LOWER_HALF_BLOCK, FULL_BLOCK>>[i + 1]
HalfWidthReference(i) == <<SPACE, LEFT_HALF_BLOCK, RIGHT_HALF_BLOCK, FULL_BLOCK>>[i + 1]
QuadrantReference(i) ==
    <<32, 9624, 9629, 9600, 9622, 9612, 9630, 9627,
      9623, 9626, 9616, 9628, 9604, 9625, 9631, 9608>>[i + 1]
SEXTANT_1 == 129792
SextantReference(i) ==
    CASE i = 0  -> SPACE
      [] i = 63 -> FULL_BLOCK
      [] i = 21 -> LEFT_HALF_BLOCK
      [] i = 42 -> RIGHT_HALF_BLOCK
      [] OTHER  -> SEXTANT_1 + (i - 1) - (IF i > 21 THEN 1 ELSE 0)
                                       - (IF i > 42 THEN 1 ELSE 0)
ThirdHeightReference(i) ==
    <<32, 129794, 129803, 129806, 129837, 129840, 129849, 9608>>[i + 1]

ReferenceSymbol(size, i) ==
    CASE size = "Full"        -> <<SPACE, FULL_BLOCK>>[i + 1]
      [] size = "HalfHeight"  -> HalfHeightReference(i)
      [] size = "HalfWidth"   -> HalfWidthReference(i)
      [] size = "Quadrant"    -> QuadrantReference(i)
      [] size = "ThirdHeight" -> ThirdHeightReference(i)
      [] size = "Sextant"     -> SextantReference(i)

\* the index of the stepX x stepY block whose top-left pixel is (r, c): the
\* pixel dy rows down and dx columns right weighs 2^(dy * stepX + dx)
RECURSIVE BlockIndexFrom(_, _, _, _, _)
BlockIndexFrom(glyph, size, r, c, k) ==
    IF k >= StepX(size) * StepY(size) THEN 0
    ELSE PixelBit(glyph, r + (k \div StepX(size)), c + (k % StepX(size))) * Pow2(k)
            + BlockIndexFrom(glyph, size, r, c, k + 1)

ExpectedSymbol(glyph, size, r, c) ==
    ReferenceSymbol(size, BlockIndexFrom(glyph, size, r, c, 0))

\* the characters render draws: line i, character j (from 0)
Drawn(w, a) ==
    { ij \in (0 .. Len(w.lines) - 1) \X (0 .. Cols(a, w.pixel_size) - 1) :
        /\ ij[1] < Rows(a, w.pixel_size)
        /\ ij[2] < Len(w.lines[ij[1] + 1]) }

CharAt(w, ij) == w.lines[ij[1] + 1][ij[2] + 1]

GlyphAt(w, ij) == BASIC_FONTS_get(Head(CharAt(w, ij).symbol))

-----------------------------------------------------------------------------
(* C1 *)

\* C1: for every density and every drawn character that has a bitmap, the
\* cell at column offset dx and row offset dy of its layout cell holds the
\* symbol the density's table gives to the stepX x stepY block of bitmap
\* pixels whose top-left pixel is (dy * stepY, dx * stepX), bit 0 leftmost.
C1_GlyphCells ==
    pc = "rendered" =>
        \A ij \in Drawn(widget, area) :
            LET size == widget.pixel_size
                cell == LayoutCell(area, size, ij[1], ij[2])
                glyph == GlyphAt(widget, ij)
            IN  glyph # NoGlyph =>
                    \A dx \in 0 .. cell.width - 1, dy \in 0 .. cell.height - 1 :
                        buf[<<cell.x + dx, cell.y + dy>>].symbol =
                            ExpectedSymbol(glyph, size, dy * StepY(size), dx * StepX(size))

\* a sextant glyph has been drawn, with a proper sextant symbol in the buffer
C1_Witness ==
    /\ pc = "rendered"
    /\ widget.pixel_size = "Sextant"
    /\ \E ij \in Drawn(widget, area) : GlyphAt(widget, ij) # NoGlyph
    /\ \E p \in GridPositions : buf[p].symbol > SEXTANT_1

-----------------------------------------------------------------------------
(* C2 *)

\* C2: layout(area, density) yields exactly ceil(H / ch) rows of exactly
\* ceil(W / cw) cells; the cell of row i, column j has origin
\* (left + j * cw, top + i * ch), width min(cw, right - x) and height
\* min(ch, bottom - y); only the last column and row are clipped, to the
\* remainder of W and H.
C2_Layout ==
    pc = "laid_out" =>
        LET cw == CellW(l_size)
            ch == CellH(l_size)
            W  == l_area.width
            H  == l_area.height
        IN  /\ Len(l_rows) = CeilDiv(H, ch)
            /\ \A i \in 1 .. Len(l_rows) :
                /\ Len(l_rows[i]) = CeilDiv(W, cw)
                /\ \A j \in 1 .. Len(l_rows[i]) :
                    LET c == l_rows[i][j]
                    IN  /\ c.x = l_area.x + (j - 1) * cw
                        /\ c.y = l_area.y + (i - 1) * ch
                        /\ c.width = Min(cw, l_area.x + W - c.x)
                        /\ c.height = Min(ch, l_area.y + H - c.y)
                        /\ c.width = IF j < Len(l_rows[i]) \/ W % cw = 0
                                     THEN cw ELSE W % cw
                        /\ c.height = IF i < Len(l_rows) \/ H % ch = 0
                                      THEN ch ELSE H % ch

\* an area of several rows and columns whose last row and column are clipped
C2_Witness ==
    /\ pc = "laid_out"
    /\ Len(l_rows) >= 2
    /\ Len(l_rows[1]) >= 2
    /\ l_area.width % CellW(l_size) # 0
    /\ l_area.height % CellH(l_size) # 0
    /\ l_area.x > 0


-----------------------------------------------------------------------------
(* C3 *)

\* whether position p lies in area a
Inside(p, a) ==
    /\ a.x <= p[1] /\ p[1] < a.x + a.width
    /\ a.y <= p[2] /\ p[2] < a.y + a.height

\* the line and character index (from 0) whose layout cell holds position p
CellIndex(p, a, size) ==
    <<(p[2] - a.y) \div CellH(size), (p[1] - a.x) \div CellW(size)>>

\* whether line ij[1] has a character ij[2]
HasChar(w, ij) ==
    /\ ij[1] < Len(w.lines)
    /\ ij[2] < Len(w.lines[ij[1] + 1])

\* C3: render draws the j-th character of the i-th line into the layout cell
\* of row i, column j and nowhere else: a position of the area shows what
\* drawing that one character into that cell gives, and every other position
\* is as before; empty lines and characters without a bitmap take their row
\* and column; lines and characters past the layout are dropped.
C3_CharToCell ==
    pc = "rendered" =>
        \A p \in GridPositions :
            LET size == widget.pixel_size
                ij == CellIndex(p, area, size)
            IN  IF Inside(p, area) /\ HasChar(widget, ij)
                THEN buf[p] =
                        render_symbol(
                            styled_graphemes(widget.lines[ij[1] + 1], widget.style)[ij[2] + 1],
                            LayoutCell(area, size, ij[1], ij[2]), prev, size)[p]
                ELSE buf[p] = prev[p]

\* an empty first line, a second line drawn one row down, and a text with
\* more lines or characters than the layout has rows or columns
C3_Witness ==
    /\ pc = "rendered"
    /\ Len(widget.lines) = 2
    /\ widget.lines[1] = <<>>
    /\ Rows(area, widget.pixel_size) >= 2
    /\ Cols(area, widget.pixel_size) >= 1
    /\ buf[<<area.x, area.y + CellH(widget.pixel_size)>>].symbol
            # prev[<<area.x, area.y + CellH(widget.pixel_size)>>].symbol
    /\ buf[<<area.x, area.y>>] = prev[<<area.x, area.y>>]

-----------------------------------------------------------------------------
(* C4 *)

\* C4: truncation equals cropping: rendering the same widget into a smaller
\* rectangle with the same origin gives, on every cell of the smaller
\* rectangle, the symbol and style that rendering into the larger one gave.
C4_TruncationIsCropping ==
    pc = "rendered" =>
        \A small \in Areas :
            (/\ small.x = area.x /\ small.y = area.y
             /\ small.width <= area.width /\ small.height <= area.height)
            => \A p \in Positions(small) : render(widget, small, prev)[p] = buf[p]

\* a glyph drawn whole at Full density, which a smaller area of width 3 and
\* height 2 cuts
C4_Witness ==
    /\ pc = "rendered"
    /\ widget.pixel_size = "Full"
    /\ area.width >= 8 /\ area.height >= 8
    /\ \E ij \in Drawn(widget, area) : GlyphAt(widget, ij) # NoGlyph
    /\ \E small \in Areas :
        /\ small.x = area.x /\ small.y = area.y
        /\ small.width = 3 /\ small.height = 2
        /\ \E p \in Positions(small) : buf[p].symbol # prev[p].symbol


-----------------------------------------------------------------------------
(* C5 .. C8: the symbol tables *)

\* whether the first n arguments are bits
BitArgs(n) == \A k \in 1 .. n : args[k] \in {0, 1}

\* 1 when the argument is set (non-zero)
IsSet(v) == IF v = 0 THEN 0 ELSE 1

\* C5: for all 16 combinations of bits, get_symbol_quadrant_size returns the
\* reference table's entry at topLeft + 2 topRight + 4 bottomLeft +
\* 8 bottomRight.
C5_QuadrantTable ==
    (pc = "mapped" /\ fn = "quadrant_size" /\ BitArgs(4)) =>
        sym = QuadrantReference(args[1] + 2 * args[2] + 4 * args[3] + 8 * args[4])

\* top left and bottom right set: the diagonal quadrant symbol
C5_Witness ==
    /\ pc = "mapped" /\ fn = "quadrant_size"
    /\ args[1] = 1 /\ args[2] = 0 /\ args[3] = 0 /\ args[4] = 1
    /\ sym = 9626

\* C6: for all 64 combinations of bits, get_symbol_sextantant_size returns
\* the reference table's entry at topLeft + 2 topRight + 4 middleLeft +
\* 8 middleRight + 16 bottomLeft + 32 bottomRight: space at 0, the full block
\* at 63, the left half block at 21, the right half block at 42, and the 60
\* sextant characters in ascending order elsewhere.
C6_SextantTable ==
    (pc = "mapped" /\ fn = "sextant_size" /\ BitArgs(6)) =>
        sym = SextantReference(args[1] + 2 * args[2] + 4 * args[3] + 8 * args[4]
                                + 16 * args[5] + 32 * args[6])

\* the whole left column: index 21, the left half block
C6_Witness ==
    /\ pc = "mapped" /\ fn = "sextant_size"
    /\ args = <<1, 0, 1, 0, 1, 0>>
    /\ sym = LEFT_HALF_BLOCK

\* C7: get_symbol_third_height(a, b, c) is
\* get_symbol_sextantant_size(a, a, b, b, c, c), and for bits a, b, c it is
\* the symbol whose full-width thirds are the set bits (space for none, the
\* full block for all).
C7_ThirdHeight ==
    (pc = "mapped" /\ fn = "third_height") =>
        /\ sym = get_symbol_sextantant_size(args[1], args[1], args[2], args[2],
                                            args[3], args[3])
        /\ BitArgs(3) =>
            sym = ThirdHeightReference(args[1] + 2 * args[2] + 4 * args[3])

\* top and bottom thirds set, the middle one not
C7_Witness ==
    /\ pc = "mapped" /\ fn = "third_height"
    /\ args[1] = 1 /\ args[2] = 0 /\ args[3] = 1
    /\ sym = 129840

\* C8: get_symbol_half_height and get_symbol_half_width have four outcomes
\* each: space when neither pixel is set, the half block of the one set
\* pixel, the full block when both are set.
C8_HalfTables ==
    /\ (pc = "mapped" /\ fn = "half_height") =>
        sym = CASE args[1] = 0 /\ args[2] = 0 -> SPACE
                [] args[1] # 0 /\ args[2] = 0 -> UPPER_HALF_BLOCK
                [] args[1] = 0 /\ args[2] # 0 -> LOWER_HALF_BLOCK
                [] args[1] # 0 /\ args[2] # 0 -> FULL_BLOCK
    /\ (pc = "mapped" /\ fn = "half_width") =>
        sym = CASE args[1] = 0 /\ args[2] = 0 -> SPACE
                [] args[1] # 0 /\ args[2] = 0 -> LEFT_HALF_BLOCK
                [] args[1] = 0 /\ args[2] # 0 -> RIGHT_HALF_BLOCK
                [] args[1] # 0 /\ args[2] # 0 -> FULL_BLOCK

\* only the right pixel set, as a masked bit
C8_Witness ==
    /\ pc = "mapped" /\ fn = "half_width"
    /\ args[1] = 0 /\ args[2] = 128
    /\ sym = RIGHT_HALF_BLOCK


-----------------------------------------------------------------------------
(* C9, C10: styles *)

\* the style attributes of a cell
CellStyle(c) == [fg |-> c.fg, bg |-> c.bg, modifier |-> c.modifier]

\* a cell carries a style when it has every attribute the style sets
Carries(c, style) ==
    /\ style.fg # None => c.fg = style.fg
    /\ style.bg # None => c.bg = style.bg
    /\ style.add_modifier \subseteq c.modifier
    /\ style.sub_modifier \cap c.modifier = {}

\* a style laid over another: what the upper one sets wins
Over(lower, upper) ==
    [fg |-> IF upper.fg = None THEN lower.fg ELSE upper.fg,
     bg |-> IF upper.bg = None THEN lower.bg ELSE upper.bg,
     add_modifier |-> (lower.add_modifier \ upper.sub_modifier) \cup upper.add_modifier,
     sub_modifier |-> (lower.sub_modifier \ upper.add_modifier) \cup upper.sub_modifier]

\* a cell's style attributes after a style is laid on the cell
Styled(cs, style) ==
    [fg |-> IF style.fg = None THEN cs.fg ELSE style.fg,
     bg |-> IF style.bg = None THEN cs.bg ELSE style.bg,
     modifier |-> (cs.modifier \cup style.add_modifier) \ style.sub_modifier]

\* the lines that are drawn and have one style on all their characters
StyledLines(w, a) ==
    { i \in 0 .. Min(Len(w.lines), Rows(a, w.pixel_size)) - 1 :
        /\ w.lines[i + 1] # <<>>
        /\ \A k \in 1 .. Len(w.lines[i + 1]) :
            w.lines[i + 1][k].style = w.lines[i + 1][1].style }

LineStyle(w, i) == Over(w.style, w.lines[i + 1][1].style)

\* the positions of the row band of line i: the whole width of the area
Band(a, size, i) ==
    { p \in Positions(a) : (p[2] - a.y) \div CellH(size) = i }

\* the number of columns of the area the characters of line i take
LineWidth(w, a, i) == Min(a.width, Len(w.lines[i + 1]) * CellW(w.pixel_size))

\* C9 as stated: every cell of the whole row band of a line, across the
\* output rectangle, carries that line's style after render.
C9_WholeBandStyled ==
    pc = "rendered" =>
        \A i \in StyledLines(widget, area) :
            \A p \in Band(area, widget.pixel_size, i) :
                Carries(buf[p], LineStyle(widget, i))

\* C9, amended: every cell of the layout cells of a line's characters (the
\* first min(W, n * cw) columns of its row band, n the number of characters
\* of the line) carries that line's style after render, cells of characters
\* without a bitmap included; the cells of the band to the right of the last
\* character keep the style they had; bands begin at multiples of the cell
\* height.
C9_DrawnCellsStyled ==
    pc = "rendered" =>
        \A i \in StyledLines(widget, area) :
            \A p \in Band(area, widget.pixel_size, i) :
                IF p[1] - area.x < LineWidth(widget, area, i)
                THEN Carries(buf[p], LineStyle(widget, i))
                ELSE CellStyle(buf[p]) = CellStyle(prev[p])

\* a red line that begins with a character without a bitmap and is shorter
\* than its band: its cells are red, the rest of the band is not
C9_Witness ==
    /\ pc = "rendered"
    /\ \E i \in StyledLines(widget, area) :
        /\ BASIC_FONTS_get(Head(widget.lines[i + 1][1].symbol)) = NoGlyph
        /\ widget.lines[i + 1][1].style.fg = "Red"
        /\ LineWidth(widget, area, i) < area.width
        /\ \E p, q \in Band(area, widget.pixel_size, i) :
            /\ p[1] = area.x /\ buf[p].fg = "Red"
            /\ q[1] = area.x + area.width - 1 /\ buf[q].fg # "Red"

\* the own style of the character whose layout cell holds p, if there is one
OwnStyleAt(w, a, p) ==
    LET ij == CellIndex(p, a, w.pixel_size)
    IN  IF HasChar(w, ij) THEN CharAt(w, ij).style ELSE StyleDefault

\* C10 as stated: the base style is applied to every cell of the output
\* rectangle, with the character's own style laid over it where there is one.
C10_BaseStyleEverywhere ==
    pc = "rendered" =>
        \A p \in Positions(area) :
            CellStyle(buf[p]) =
                Styled(Styled(CellStyle(prev[p]), widget.style),
                       OwnStyleAt(widget, area, p))

\* C10, amended: the base style is applied to every cell of the layout cells
\* of the text's characters, and to no other cell of the output rectangle;
\* the style stamped for a character is the base style with the character's
\* own style laid over it (what the character sets wins, the rest is the
\* base's).
C10_BaseStyleOnDrawnCells ==
    pc = "rendered" =>
        \A p \in Positions(area) :
            IF HasChar(widget, CellIndex(p, area, widget.pixel_size))
            THEN CellStyle(buf[p]) =
                    Styled(Styled(CellStyle(prev[p]), widget.style),
                           OwnStyleAt(widget, area, p))
            ELSE CellStyle(buf[p]) = CellStyle(prev[p])

\* a base style with colours, a character with its own foreground drawn
\* over it, and a cell of the area that no character covers
C10_Witness ==
    /\ pc = "rendered"
    /\ widget.style = BoldOnBlue
    /\ \E p, q \in Positions(area) :
        /\ OwnStyleAt(widget, area, p).fg = "Green"
        /\ buf[p].fg = "Green" /\ buf[p].bg = "Blue" /\ "BOLD" \in buf[p].modifier
        /\ ~HasChar(widget, CellIndex(q, area, widget.pixel_size))
        /\ buf[q].bg # "Blue"

-----------------------------------------------------------------------------
(* C11: which cells are stamped *)

\* the positions of the area that lie in the layout cell of a character the
\* text has
Covered(w, a) ==
    { p \in Positions(a) : HasChar(w, CellIndex(p, a, w.pixel_size)) }

\* the positions whose style attributes the render call changed
Restyled == { p \in GridPositions : CellStyle(buf[p]) # CellStyle(prev[p]) }

\* C11: after render a cell of the output rectangle has been stamped with a
\* style if and only if it lies in the layout cell (row i, column j) of an
\* existing character j of an existing line i: a cell outside those layout
\* cells, right of a line's last character or below the last line, keeps its
\* symbol and style, and under a base style that shows on every cell it is
\* stamped on (it sets a background no cell had) the cells whose style
\* changed are exactly the cells of those layout cells.
C11_StampedIffCovered ==
    pc = "rendered" =>
        /\ \A p \in GridPositions \ Covered(widget, area) : buf[p] = prev[p]
        /\ Restyled \subseteq Covered(widget, area)
        /\ widget.style = BoldOnBlue => Restyled = Covered(widget, area)

\* one character at Full density in an area nine columns wide and nine rows
\* high: the eight columns and rows of its layout cell are stamped, the
\* ninth column and the ninth row are as before
C11_Witness ==
    /\ pc = "rendered"
    /\ widget.pixel_size = "Full"
    /\ widget.style = BoldOnBlue
    /\ Len(widget.lines) = 1 /\ Len(widget.lines[1]) = 1
    /\ area.width = 9 /\ area.height = 9
    /\ buf[<<area.x + 7, area.y + 7>>].bg = "Blue"
    /\ buf[<<area.x + 8, area.y>>] = prev[<<area.x + 8, area.y>>]
    /\ buf[<<area.x, area.y + 8>>] = prev[<<area.x, area.y + 8>>]
    /\ prev[<<area.x + 7, area.y + 7>>].bg # "Blue"

-----------------------------------------------------------------------------
(* C12: characters without a bitmap *)

\* C12: for a character with no bitmap in the font, render raises no error,
\* stamps the character's style (the base style with the character's own
\* laid over it) on every cell of its layout cell, and leaves the symbol of
\* every one of those cells exactly as it was before the call, whatever an
\* earlier render call had drawn there.
C12_NoBitmapStyleOnly ==
    /\ pc # "panicked"
    /\ (pc = "drawing" /\ calls > 0) =>
        \A ij \in Drawn(widget, area) :
            GlyphAt(widget, ij) = NoGlyph =>
                \A p \in Positions(LayoutCell(area, widget.pixel_size, ij[1], ij[2])) :
                    /\ buf[p].symbol = prev[p].symbol
                    /\ CellStyle(buf[p]) =
                            Styled(CellStyle(prev[p]),
                                   Over(widget.style, CharAt(widget, ij).style))

\* a second render call draws a character without a bitmap into a layout
\* cell where the first call drew a glyph: the block symbol of the first
\* call is still there, under the style of the second
C12_Witness ==
    /\ pc = "drawing"
    /\ calls = 2
    /\ GlyphAt(widget, <<0, 0>>) = NoGlyph
    /\ \E p \in Positions(LayoutCell(area, widget.pixel_size, 0, 0)) :
        /\ prev[p].symbol # first[p].symbol
        /\ prev[p].symbol \notin {SPACE, 120}
        /\ buf[p].symbol = prev[p].symbol
        /\ prev[p].fg = "Red"
        /\ buf[p].fg = "Blue"

-----------------------------------------------------------------------------
(* C13: the frame of a sequence of render calls *)

\* C13: after any sequence of render calls, with any texts, densities and
\* output rectangles, every cell of the buffer outside the union of those
\* rectangles has the symbol and style it had before the first call.
C13_OnlyInsideTheRects ==
    pc \in {"drawing", "panicked"} =>
        \A p \in GridPositions :
            (\A r \in rects : ~Inside(p, r)) => buf[p] = first[p]

\* two calls with different rectangles, a cell they changed, and a cell that
\* lies next to one of the rectangles and outside both
C13_Witness ==
    /\ pc = "drawing"
    /\ calls = 2
    /\ Cardinality(rects) = 2
    /\ \E r \in rects :
        /\ \E q \in Positions(r) : buf[q] # first[q]
        /\ \E p \in GridPositions :
            /\ p[1] = r.x + r.width /\ Inside(<<p[1] - 1, p[2]>>, r)
            /\ \A s \in rects : ~Inside(p, s)
            /\ buf[<<p[1] - 1, p[2]>>] # first[<<p[1] - 1, p[2]>>]

-----------------------------------------------------------------------------
(* C14: render cannot fail *)

-----------------------------------------------------------------------------
(* C15, C16, C17: the builder *)

\* C15: building with lines supplied but no style and no density yields a
\* widget whose density is Full, whose style is the style that sets nothing
\* and whose lines are the supplied lines; a supplied style or density is
\* stored unchanged.
C15_BuildDefaults ==
    pc \in {"built", "rendered"} =>
        /\ builder.lines # <<>>
        /\ widget.lines = builder.lines[1]
        /\ widget.style =
                IF builder.style = <<>>
                THEN [fg |-> "None", bg |-> "None", add_modifier |-> {}, sub_modifier |-> {}]
                ELSE builder.style[1]
        /\ widget.pixel_size =
                IF builder.pixel_size = <<>> THEN "Full" ELSE builder.pixel_size[1]

\* a widget built from lines alone
C15_Witness ==
    /\ pc = "built"
    /\ builder.lines # <<>> /\ builder.lines[1] # <<>>
    /\ builder.style = <<>>
    /\ builder.pixel_size = <<>>
    /\ widget.pixel_size = "Full"
    /\ widget.lines = builder.lines[1]

\* C16: when lines has not been supplied, build returns a failure and
\* produces no widget, and only then; no render call is made with a builder
\* that lacks lines, and no render call fails.
C16_MissingLinesFailsBuild ==
    /\ pc = "build_failed" => (builder.lines = <<>> /\ widget = "none")
    /\ pc \in {"built", "rendered", "panicked"} => builder.lines # <<>>
    /\ pc # "panicked"

\* a builder given a style and a density but no lines, whose build failed
C16_Witness ==
    /\ pc = "build_failed"
    /\ builder.lines = <<>>
    /\ builder.style # <<>>
    /\ builder.pixel_size # <<>>
    /\ buf = prev

\* C17: building with an empty list of lines succeeds, and rendering the
\* widget leaves the symbol and style of every cell of the buffer unchanged.
C17_NoLinesRendersNothing ==
    /\ pc = "build_failed" => builder.lines # << <<>> >>
    /\ (pc \in {"built", "rendered"} /\ builder.lines = << <<>> >>) =>
            (widget.lines = <<>> /\ buf = prev)

\* a widget built from an empty list of lines, rendered into an area of a
\* buffer that had been drawn on
C17_Witness ==
    /\ pc = "rendered"
    /\ builder.lines = << <<>> >>
    /\ area.width = GridW - 1 /\ area.height = GridH - 1
    /\ prev = BufferUsed
    /\ buf = BufferUsed

-----------------------------------------------------------------------------
(* C18: pixels_per_cell *)

-----------------------------------------------------------------------------
(* C19: render passes into disjoint rectangles *)

\* both passes have made all their operations
PassesDone == pc = "passes" /\ pending = << <<>>, <<>> >>

\* C19: when two render calls target rectangles that share no cell and their
\* cell operations are interleaved in any order, no operation reaches a cell
\* outside the two rectangles, and the buffer at the end is the one the two
\* calls give when run one after the other, in either order.
C19_DisjointPassesCommute ==
    pc = "passes" =>
        /\ \A p \in GridPositions :
                (~Inside(p, jobs[1].area) /\ ~Inside(p, jobs[2].area))
                    => buf[p] = first[p]
        /\ PassesDone =>
            /\ buf = render(jobs[2].widget, jobs[2].area,
                            render(jobs[1].widget, jobs[1].area, first))
            /\ buf = render(jobs[1].widget, jobs[1].area,
                            render(jobs[2].widget, jobs[2].area, first))

\* both passes are done, each has changed a cell of its rectangle, and the
\* last operation made was the first pass's: the second pass ended in
\* between the operations of the first
C19_Witness ==
    /\ PassesDone
    /\ \E p \in Positions(jobs[1].area) : buf[p].symbol # first[p].symbol
    /\ \E q \in Positions(jobs[2].area) : buf[q].symbol # first[q].symbol
    /\ \E p \in Positions(jobs[1].area) : buf[p] # prev[p]

-----------------------------------------------------------------------------
(* C20: the rows past the bitmap *)

\* bit c of row r of a bitmap, for a row the bitmap has
RowBit(glyph, r, c) == (glyph[r + 1] \div Pow2(c)) % 2

\* the symbol of a cell whose thirds, from the top, are the bitmap rows
\* given by rs (one, two or three rows) at column c, and for Sextant at
\* columns c and c + 1; a third without a row is empty
ThirdsSymbol(glyph, size, rs, c) ==
    LET at(k, col) == IF k <= Len(rs) THEN RowBit(glyph, rs[k], col) ELSE 0
    IN  IF size = "ThirdHeight"
        THEN ThirdHeightReference(at(1, c) + 2 * at(2, c) + 4 * at(3, c))
        ELSE SextantReference(at(1, c) + 2 * at(1, c + 1)
                              + 4 * at(2, c) + 8 * at(2, c + 1)
                              + 16 * at(3, c) + 32 * at(3, c + 1))

\* the symbols whose bottom third is empty
EmptyBottomThird(size) ==
    IF size = "ThirdHeight"
    THEN { ThirdHeightReference(i) : i \in 0 .. 3 }
    ELSE { SextantReference(i) : i \in 0 .. 15 }

\* C20: at ThirdHeight and Sextant the third cell row of a glyph shows bitmap
\* rows 6 and 7 as its top and middle thirds and has an empty bottom third
\* (the row past the bitmap is read as 0), and the first two cell rows show
\* bitmap rows 0..2 and 3..5 with no padding.
C20_PaddingRows ==
    (pc = "rendered" /\ widget.pixel_size \in {"ThirdHeight", "Sextant"}) =>
        \A ij \in Drawn(widget, area) :
            GlyphAt(widget, ij) # NoGlyph =>
                LET size == widget.pixel_size
                    cell == LayoutCell(area, size, ij[1], ij[2])
                IN  \A p \in Positions(cell) :
                        LET dy == p[2] - cell.y
                            c  == (p[1] - cell.x) * StepX(size)
                        IN  IF dy = 2
                            THEN /\ buf[p].symbol =
                                        ThirdsSymbol(GlyphAt(widget, ij), size, <<6, 7>>, c)
                                 /\ buf[p].symbol \in EmptyBottomThird(size)
                            ELSE buf[p].symbol =
                                    ThirdsSymbol(GlyphAt(widget, ij), size,
                                                 <<3 * dy, 3 * dy + 1, 3 * dy + 2>>, c)

\* a glyph whose rows 6 and 7 both have bit 4 set, at ThirdHeight: the cell
\* of the third row at column 4 shows the top and middle thirds, and a cell
\* of the row above shows a bottom third
C20_Witness ==
    /\ pc = "rendered"
    /\ widget.pixel_size = "ThirdHeight"
    /\ \E ij \in Drawn(widget, area) :
        /\ Head(CharAt(widget, ij).symbol) = CH_g
        /\ LET cell == LayoutCell(area, "ThirdHeight", ij[1], ij[2])
           IN  /\ cell.width >= 5 /\ cell.height = 3
               /\ buf[<<cell.x + 4, cell.y + 2>>].symbol = ThirdHeightReference(3)
               /\ buf[<<cell.x + 4, cell.y + 1>>].symbol \notin EmptyBottomThird("ThirdHeight")

-----------------------------------------------------------------------------
(* C21: the symbol functions normalise their arguments *)

\* the values of a u8
U8 == 0 .. 255

\* the symbol function named f applied to the arguments a
SymbolOf(f, a) ==
    CASE f = "half_height"   -> get_symbol_half_height(a[1], a[2])
      [] f = "half_width"    -> get_symbol_half_width(a[1], a[2])
      [] f = "quadrant_size" -> get_symbol_quadrant_size(a[1], a[2], a[3], a[4])
      [] f = "sextant_size"  ->
            get_symbol_sextantant_size(a[1], a[2], a[3], a[4], a[5], a[6])
      [] f = "third_height"  -> get_symbol_third_height(a[1], a[2], a[3])

\* C21: every symbol function gives, for its arguments, the symbol it gives
\* for the arguments replaced by 1 when non-zero and 0 when zero, and so does
\* it with any one argument replaced by any u8 value; the index computed for
\* the quadrant table is within 0..15 and the one for the sextant table
\* within 0..63.
C21_ArgumentsNormalised ==
    pc = "mapped" =>
        /\ sym = SymbolOf(fn, [k \in 1 .. 6 |-> IsSet(args[k])])
        /\ \A k \in 1 .. 6, v \in U8 :
                SymbolOf(fn, [args EXCEPT ![k] = v])
                    = SymbolOf(fn, [args EXCEPT ![k] = IsSet(v)])
        /\ quadrant_index(args[1], args[2], args[3], args[4]) \in 0 .. 15
        /\ sextant_index(args[1], args[2], args[3], args[4], args[5], args[6])
                \in 0 .. 63

\* the masked bit 128 as top left and bottom right: the symbol of 1 and 1
C21_Witness ==
    /\ pc = "mapped" /\ fn = "quadrant_size"
    /\ args[1] = 128 /\ args[2] = 0 /\ args[3] = 0 /\ args[4] = 128
    /\ sym = QuadrantReference(9)
    /\ quadrant_index(args[1], args[2], args[3], args[4]) = 9

-----------------------------------------------------------------------------
(* C22: the style is stamped before the symbols *)

\* the layout cell (line, character, from 0) of pass k that holds the cell
\* an operation is made on
OpCell(k, op) ==
    CellIndex(<<op.x, op.y>>, jobs[k].area, jobs[k].widget.pixel_size)

\* the style render stamps for character ij of widget w
StampedStyle(w, ij) == Over(w.style, CharAt(w, ij).style)

\* C22: within the rendering of one character the style of its whole layout
\* cell is stamped before any of its symbols is written (once a pass is
\* about to write a symbol, none of its operations still to come stamps a
\* style in the same layout cell), an operation that changes a cell's symbol
\* leaves the cell's style as it was, and when the passes are done every
\* cell of a character's layout cell carries the style stamped for that
\* character.
C22_StyleBeforeSymbols ==
    pc = "passes" =>
        /\ \A k \in 1 .. 2 :
            (pending[k] # <<>> /\ Head(pending[k]).kind = "set_char") =>
                \A n \in 2 .. Len(pending[k]) :
                    pending[k][n].kind = "set_style" =>
                        OpCell(k, pending[k][n]) # OpCell(k, Head(pending[k]))
        /\ \A p \in GridPositions :
            buf[p].symbol # prev[p].symbol => CellStyle(buf[p]) = CellStyle(prev[p])
        /\ PassesDone =>
            \A k \in 1 .. 2 :
                \A ij \in Drawn(jobs[k].widget, jobs[k].area) :
                    \A p \in Positions(LayoutCell(jobs[k].area,
                                jobs[k].widget.pixel_size, ij[1], ij[2])) :
                        CellStyle(buf[p]) =
                            Styled(CellStyle(first[p]), StampedStyle(jobs[k].widget, ij))

\* the first pass has stamped red on every cell of its first layout cell,
\* has just written a block symbol into one of them, and has symbols of the
\* same layout cell still to write
C22_Witness ==
    /\ pc = "passes"
    /\ pending[1] # <<>>
    /\ Head(pending[1]).kind = "set_char"
    /\ OpCell(1, Head(pending[1])) = <<0, 0>>
    /\ \A p \in Positions(LayoutCell(jobs[1].area, jobs[1].widget.pixel_size, 0, 0)) :
        buf[p].fg = "Red" /\ first[p].fg # "Red"
    /\ \E p \in Positions(jobs[1].area) :
        /\ buf[p].symbol # prev[p].symbol
        /\ buf[p].symbol \notin {SPACE, 120}
        /\ buf[p].fg = "Red"

-----------------------------------------------------------------------------
(* C23: render and the standard output *)

\* C23: render performs no I/O: for every density a render call writes
\* nothing to the standard output of the process.
C23_NoOutput == stdout = <<>>

\* a render call at Sextant density has written the line with the width and
\* height of a layout cell
C23_Witness ==
    /\ pc = "rendered"
    /\ widget.pixel_size = "Sextant"
    /\ stdout = << [width |-> 4, height |-> 3] >>

-----------------------------------------------------------------------------
(* C24: graphemes of several code points *)

\* the widget with every grapheme cut down to its first code point
FirstCodepoints(w) ==
    [w EXCEPT !.lines =
        [i \in 1 .. Len(w.lines) |->
            [j \in 1 .. Len(w.lines[i]) |->
                [symbol |-> <<w.lines[i][j].symbol[1]>>,
                 style  |-> w.lines[i][j].style]]]]

\* C24: a grapheme of several code points takes one layout cell and is
\* drawn with the bitmap of its first code point: render gives the buffer it
\* gives for the text with every grapheme cut down to its first code point,
\* and the layout cell of a grapheme whose first code point has a bitmap
\* shows that bitmap, whatever code points follow.
C24_FirstCodepointOnly ==
    pc = "rendered" =>
        /\ buf = render(FirstCodepoints(widget), area, prev)
        /\ \A ij \in Drawn(widget, area) :
            LET size  == widget.pixel_size
                cell  == LayoutCell(area, size, ij[1], ij[2])
                glyph == BASIC_FONTS_get(CharAt(widget, ij).symbol[1])
            IN  (Len(CharAt(widget, ij).symbol) > 1 /\ glyph # NoGlyph) =>
                    \A dx \in 0 .. cell.width - 1, dy \in 0 .. cell.height - 1 :
                        buf[<<cell.x + dx, cell.y + dy>>].symbol =
                            ExpectedSymbol(glyph, size, dy * StepY(size), dx * StepX(size))

\* an S with a combining mark drawn as S in the first layout cell, and the
\* next grapheme drawn in the second
C24_Witness ==
    /\ pc = "rendered"
    /\ widget.pixel_size = "Sextant"
    /\ widget.lines # <<>> /\ widget.lines[1] # <<>>
    /\ widget.lines[1][1].symbol = <<CH_S, CH_DIAERESIS>>
    /\ area.width = GridW - 1 /\ area.height = 8
    /\ buf[<<area.x + 1, area.y>>].symbol
            = ExpectedSymbol(BASIC_FONTS_get(CH_S), "Sextant", 0, 2)
    /\ buf[<<area.x + 1, area.y>>].symbol # prev[<<area.x + 1, area.y>>].symbol
    /\ \E p \in Positions(LayoutCell(area, "Sextant", 0, 1)) :
        buf[p].symbol # prev[p].symbol

-----------------------------------------------------------------------------
(* C25: the work of a render call *)

\* the indexes of the operations of one kind in a sequence of operations
OpsOfKind(ops, kind) == { k \in 1 .. Len(ops) : ops[k].kind = kind }

\* the cells the operations at the indexes ks are made on
OpPositions(ops, ks) == { <<ops[k].x, ops[k].y>> : k \in ks }

\* C25: render terminates, and its work is bounded by the output rectangle:
\* for an area of width W and height H a call makes at most 2 * W * H cell
\* operations; it writes a symbol to at most W * H cells, all of them in the
\* area, and to no cell twice (nor does it stamp a style on a cell twice),
\* however many lines and characters the text has.
C25_WorkBoundedByArea ==
    pc = "rendered" =>
        LET ops    == render_ops(widget, area)
            chars  == OpsOfKind(ops, "set_char")
            styles == OpsOfKind(ops, "set_style")
        IN  /\ Len(ops) <= 2 * area.width * area.height
            /\ Cardinality(chars) <= area.width * area.height
            /\ Cardinality(OpPositions(ops, chars)) = Cardinality(chars)
            /\ Cardinality(OpPositions(ops, styles)) = Cardinality(styles)
            /\ \A p \in OpPositions(ops, chars \cup styles) : Inside(p, area)

\* a text of five lines and three characters in the first, at Full density in
\* an area of three columns and two rows: six symbols are written
C25_Witness ==
    /\ pc = "rendered"
    /\ widget.pixel_size = "Full"
    /\ Len(widget.lines) = 5 /\ Len(widget.lines[1]) = 3
    /\ area.width = 3 /\ area.height = 2
    /\ Cardinality(OpsOfKind(render_ops(widget, area), "set_char")) = 6
    /\ buf # prev

-----------------------------------------------------------------------------
(* C26: the layout is a partition of the area *)

\* the indexes (row, column) of the layout cells returned
LayoutIndexes ==
    UNION { { <<i, j>> : j \in 1 .. Len(l_rows[i]) } : i \in 1 .. Len(l_rows) }

\* whether two Rects share a position
Overlap(r, s) ==
    /\ r.x < s.x + s.width /\ s.x < r.x + r.width
    /\ r.y < s.y + s.height /\ s.y < r.y + r.height

\* C26: the layout cells of an area form a partition of it: every layout
\* cell is at least one column wide and one row high and lies inside the
\* area, two distinct layout cells share no position, and every position of
\* the area lies in a layout cell; an area of width 0 or height 0 has no
\* layout cell.
C26_LayoutPartition ==
    pc = "laid_out" =>
        /\ \A ij \in LayoutIndexes :
            LET c == l_rows[ij[1]][ij[2]]
            IN  /\ c.width >= 1 /\ c.height >= 1
                /\ l_area.x <= c.x /\ c.x + c.width <= l_area.x + l_area.width
                /\ l_area.y <= c.y /\ c.y + c.height <= l_area.y + l_area.height
        /\ \A ij, kl \in LayoutIndexes :
            ij # kl => ~Overlap(l_rows[ij[1]][ij[2]], l_rows[kl[1]][kl[2]])
        /\ \A p \in Positions(l_area) :
            \E ij \in LayoutIndexes : Inside(p, l_rows[ij[1]][ij[2]])
        /\ (l_area.width = 0 \/ l_area.height = 0) => LayoutIndexes = {}

\* an area that is cut into three rows of three cells, the last of each one
\* column wide or one row high
C26_Witness ==
    /\ pc = "laid_out"
    /\ l_size = "Quadrant"
    /\ l_area.width = 9 /\ l_area.height = 9
    /\ Cardinality(LayoutIndexes) = 9
    /\ l_rows[3][3] = Rect(l_area.x + 8, l_area.y + 8, 1, 1)

-----------------------------------------------------------------------------
(* C27: the bitmap is read in range *)

\* the number of rows of a font8x8 bitmap
GlyphLen == Len(BASIC_FONTS_get(CH_S))

\* C27: every access to the bitmap is in range, for every density and every
\* size of layout cell: each row index read (the sampled row and the one or
\* two rows below it) and each bit position tested (the sampled column and
\* the one to its right) is between 0 and 7.
C27_BitmapReadsInRange ==
    pc = "laid_out" =>
        \A i \in 1 .. Len(l_rows) : \A j \in 1 .. Len(l_rows[i]) :
            \A rb \in glyph_reads(l_rows[i][j], l_size, GlyphLen) :
                /\ 0 <= rb[1] /\ rb[1] <= 7
                /\ 0 <= rb[2] /\ rb[2] <= 7

\* a whole layout cell at a density that reads the row below and the bit to
\* the right without a guard: row 7 and bit 7 are read
C27_Witness ==
    /\ pc = "laid_out"
    /\ l_size = "Quadrant"
    /\ l_rows # <<>> /\ l_rows[1] # <<>>
    /\ l_rows[1][1].width = 4 /\ l_rows[1][1].height = 4
    /\ <<7, 7>> \in glyph_reads(l_rows[1][1], l_size, GlyphLen)
    /\ <<6, 6>> \in glyph_reads(l_rows[1][1], l_size, GlyphLen)

-----------------------------------------------------------------------------
(* C28: render is idempotent and deterministic *)

\* C28: render is idempotent and deterministic: a call that renders the
\* widget of the call before it into the same rectangle leaves the grid as
\* that call left it, and the grid after a call is a function of the widget,
\* the rectangle and the grid before the call.
C28_RenderIdempotent ==
    [][calls' = calls + 1 =>
        /\ buf' = render(widget', area', buf)
        /\ (calls >= 1 /\ widget' = widget /\ area' = area) => buf' = buf]_vars

\* a styled two-line widget rendered twice in a row into the same rectangle:
\* the first call changed the grid, the second did not
C28_Witness ==
    /\ pc = "drawing"
    /\ calls = 2
    /\ rects = {area}
    /\ widget.style = BoldOnBlue
    /\ widget.pixel_size = "Sextant"
    /\ buf = prev
    /\ buf # first
    /\ buf = render(widget, area, first)

-----------------------------------------------------------------------------
(* C29: different bit patterns give different symbols *)

\* the normalised arguments of the call: 0 or 1 each
Pattern(n) == [k \in 1 .. n |-> IF args[k] > 0 THEN 1 ELSE 0]

\* the normalised bit patterns of n arguments
Patterns(n) == [1 .. n -> {0, 1}]

\* the symbols in a table
Entries(table) == { table[k] : k \in 1 .. Len(table) }

\* C29: the 16 entries of the quadrant table are pairwise distinct and the 64
\* entries of the sextant table are pairwise distinct, so no bit pattern
\* other than the normalised pattern of the arguments is mapped to the
\* symbol returned; the 8 third-height patterns are mapped to 8 distinct
\* symbols.
C29_SymbolsDistinct ==
    pc = "mapped" =>
        /\ fn = "quadrant_size" =>
            /\ Len(QUADRANT_SYMBOLS) = 16
            /\ Cardinality(Entries(QUADRANT_SYMBOLS)) = 16
            /\ \A q \in Patterns(4) :
                get_symbol_quadrant_size(q[1], q[2], q[3], q[4]) = sym
                    <=> q = Pattern(4)
        /\ fn = "sextant_size" =>
            /\ Len(SEXANT_SYMBOLS) = 64
            /\ Cardinality(Entries(SEXANT_SYMBOLS)) = 64
            /\ \A q \in Patterns(6) :
                get_symbol_sextantant_size(q[1], q[2], q[3], q[4], q[5], q[6]) = sym
                    <=> q = Pattern(6)
        /\ fn = "third_height" =>
            /\ Cardinality({ get_symbol_third_height(q[1], q[2], q[3]) :
                                q \in Patterns(3) }) = 8
            /\ \A q \in Patterns(3) :
                get_symbol_third_height(q[1], q[2], q[3]) = sym
                    <=> q = Pattern(3)

\* the sextant function called with the pattern of the right half block,
\* one of the three entries that lie outside the block of sextant symbols
C29_Witness ==
    /\ pc = "mapped"
    /\ fn = "sextant_size"
    /\ Pattern(6) = <<0, 1, 0, 1, 0, 1>>
    /\ args[2] = 128
    /\ sym = RIGHT_HALF_BLOCK

=============================================================================
